---- MODULE Spec2Model ----
(***************************************************************************)
(* State-machine model of xpp::opt::MotionOptimizerFacade                  *)
(* (src/src/motion_optimizer_facade.cc): construction of the optimization  *)
(* variables (BuildVariables and the two base representations), the solve  *)
(* sequence (SolveProblem), the loop over the recorded solver iterations   *)
(* (GetTrajectories) and the sampling loop (BuildTrajectory).              *)
(*                                                                         *)
(* Times are IEEE 754 binary64 values ("double"): a record [hi, lo, e]     *)
(* that stands for (hi * 2^27 + lo) * 2^e with a significand of 53 binary  *)
(* digits.  Sums are rounded to nearest, ties to even, as the additions of *)
(* the code are; decimal literals are converted as the compiler converts   *)
(* them.                                                                   *)
(***************************************************************************)
EXTENDS Integers, Sequences, FiniteSets, TLC

VARIABLES
  params_,          \* the optimization parameters (OptimizationParameters)
  model_,           \* the robot model: number of endeffectors
  ndebug,           \* whether the build defines NDEBUG, once an assert shows it
  inital_base_,     \* initial base state  [lin, ang], each [p_, v_]
  final_base_,      \* desired final base state
  pc,               \* position of the control flow
  solver,           \* argument of SolveProblem
  opt_variables,    \* the composite "nlp_variables": sequence of blocks
  contact_schedule, \* local vector of BuildVariables: positions of schedules
  ee,               \* loop variable of the three limb loops
  nlp,              \* the NLP object: variables set, constraints, costs, ...
  dt,               \* argument of GetTrajectories and BuildTrajectory
  iter,             \* loop variable of GetTrajectories
  trajectories,     \* local NLPIterations of GetTrajectories
  T,                \* local T of BuildTrajectory
  t,                \* local t of BuildTrajectory
  trajectory        \* local RobotStateVec of BuildTrajectory

vars == <<params_, model_, ndebug, inital_base_, final_base_, pc, solver,
          opt_variables, contact_schedule, ee, nlp, dt, iter, trajectories,
          T, t, trajectory>>

----------------------------------------------------------------------------
(* Bounds of the model *)

MaxEE          == 2   \* largest number of endeffectors
MaxGait        == 2   \* number of contact timings offered besides the first
MaxPhaseDur    == 3   \* longest phase of those timings, in tenths of a second
MaxBasePolys   == 2   \* largest number of base polynomial durations
MaxForcePolys  == 2   \* largest force_splines_per_stance_phase_
MaxDt          == 1   \* largest sampling step offered in tenths of a second
MaxIter        == 2   \* largest number of iterations a solver records

----------------------------------------------------------------------------
(* Natural numbers of any size: sequences of limbs, least significant     *)
(* first, without leading zero limbs; <<>> is zero                         *)

Limb == 32768          \* 2^15
LimbBits == 15

RECURSIVE FromInt(_)
FromInt(n) == IF n = 0 THEN <<>> ELSE <<n % Limb>> \o FromInt(n \div Limb)

RECURSIVE BTrim(_)
BTrim(a) == IF a = <<>> THEN <<>>
            ELSE IF a[Len(a)] = 0 THEN BTrim(SubSeq(a, 1, Len(a) - 1))
            ELSE a

RECURSIVE BAddC(_, _, _)
BAddC(a, b, c) ==
  IF a = <<>> /\ b = <<>> THEN (IF c = 0 THEN <<>> ELSE <<c>>)
  ELSE LET x == (IF a = <<>> THEN 0 ELSE Head(a))
                  + (IF b = <<>> THEN 0 ELSE Head(b)) + c
       IN <<x % Limb>> \o BAddC(IF a = <<>> THEN <<>> ELSE Tail(a),
                                IF b = <<>> THEN <<>> ELSE Tail(b),
                                x \div Limb)

BAdd(a, b) == BAddC(a, b, 0)

\* a * k + c for 0 <= k <= Limb
RECURSIVE BMulC(_, _, _)
BMulC(a, k, c) ==
  IF a = <<>> THEN (IF c = 0 THEN <<>> ELSE <<c>>)
  ELSE LET x == Head(a) * k + c
       IN <<x % Limb>> \o BMulC(Tail(a), k, x \div Limb)

BMul(a, k) == BTrim(BMulC(a, k, 0))

\* a * 2^n
BShl(a, n) ==
  IF a = <<>> THEN <<>>
  ELSE [i \in 1 .. (n \div LimbBits) |-> 0] \o BMulC(a, 2 ^ (n % LimbBits), 0)

\* floor(a / 2^n)
BShr(a, n) ==
  LET q == n \div LimbBits
      r == n % LimbBits
      s == SubSeq(a, q + 1, Len(a))
  IN BTrim([i \in 1 .. Len(s) |->
              (s[i] \div (2 ^ r))
                + ((IF i < Len(s) THEN s[i + 1] ELSE 0) % (2 ^ r))
                    * (2 ^ (LimbBits - r))])

\* quotient and remainder of a by d, 0 < d < Limb
RECURSIVE BDivMod(_, _)
BDivMod(a, d) ==
  IF a = <<>> THEN [q |-> <<>>, r |-> 0]
  ELSE LET hi == BDivMod(Tail(a), d)
           cur == hi.r * Limb + Head(a)
       IN [q |-> BTrim(<<cur \div d>> \o hi.q), r |-> cur % d]

\* -1, 0 or 1 as a is below, equal to or above b
RECURSIVE BCmp(_, _)
BCmp(a, b) ==
  IF Len(a) # Len(b) THEN (IF Len(a) < Len(b) THEN 0 - 1 ELSE 1)
  ELSE IF a = <<>> THEN 0
  ELSE LET n == Len(a)
       IN IF a[n] # b[n] THEN (IF a[n] < b[n] THEN 0 - 1 ELSE 1)
          ELSE BCmp(SubSeq(a, 1, n - 1), SubSeq(b, 1, n - 1))

\* number of binary digits of a
BitLen(a) ==
  IF a = <<>> THEN 0
  ELSE LimbBits * (Len(a) - 1)
         + (CHOOSE n \in 1 .. LimbBits :
              2 ^ (n - 1) <= a[Len(a)] /\ a[Len(a)] < 2 ^ n)

----------------------------------------------------------------------------
(* The type double: [hi, lo, e] stands for (hi * 2^27 + lo) * 2^e, with a  *)
(* significand of 53 binary digits, 2^25 <= hi < 2^26 and 0 <= lo < 2^27;  *)
(* 0.0 is [0, 0, 0]                                                        *)

Significand == 53       \* binary digits of the significand of a double
Half == 2 ^ 27          \* lo counts below Half, hi counts multiples of it
Top == 2 ^ 26           \* hi is below Top

Zero == [hi |-> 0, lo |-> 0, e |-> 0]

\* the number of a sequence of at most two limbs
ToInt(a) == IF a = <<>> THEN 0
            ELSE IF Len(a) = 1 THEN a[1] ELSE a[1] + a[2] * Limb

\* the double of a significand s of 53 binary digits
Double(s, e) ==
  [hi |-> ToInt(BShr(s, 27)),
   lo |-> ToInt(SubSeq(s, 1, 2)) % Half,
   e |-> e]

\* the double nearest to s * 2^e, or to a number just above it when sticky;
\* a tie goes to the even significand
Round(s, e, sticky) ==
  LET len == BitLen(s)
  IN IF s = <<>> THEN Zero
     ELSE IF len <= Significand
     THEN Double(BShl(s, Significand - len), e - (Significand - len))
     ELSE LET n == len - Significand
              q == BShr(s, n)
              c == BCmp(s, BAdd(BShl(q, n), BShl(<<1>>, n - 1)))
              up == c > 0 \/ (c = 0 /\ (sticky \/ q[1] % 2 = 1))
              r == IF up THEN BAdd(q, <<1>>) ELSE q
          IN IF BitLen(r) > Significand
             THEN Double(BShr(r, 1), e + n + 1)
             ELSE Double(r, e + n)

\* floor(a / 10^k) and whether the division left a remainder
RECURSIVE DivPow10(_, _)
DivPow10(a, k) ==
  IF k = 0 THEN [q |-> a, inexact |-> FALSE]
  ELSE LET d == BDivMod(a, 10)
           rest == DivPow10(d.q, k - 1)
       IN [q |-> rest.q, inexact |-> rest.inexact \/ d.r # 0]

\* the double a decimal literal n * 10^-k is converted to
Decimal(n, k) ==
  LET shift == 4 * k + Significand + 3
      d == DivPow10(BShl(FromInt(n), shift), k)
  IN Round(d.q, 0 - shift, d.inexact)

IsZero(a) == a.hi = 0 /\ a.lo = 0

\* -1, 0 or 1 as the double a is below, equal to or above the double b
DoubleCmp(a, b) ==
  IF IsZero(a) \/ IsZero(b)
  THEN (IF IsZero(a) /\ IsZero(b) THEN 0 ELSE IF IsZero(a) THEN 0 - 1 ELSE 1)
  ELSE IF a.e # b.e THEN (IF a.e < b.e THEN 0 - 1 ELSE 1)
  ELSE IF a.hi # b.hi THEN (IF a.hi < b.hi THEN 0 - 1 ELSE 1)
  ELSE IF a.lo # b.lo THEN (IF a.lo < b.lo THEN 0 - 1 ELSE 1)
  ELSE 0

DoubleLe(a, b) == DoubleCmp(a, b) <= 0
DoubleLt(a, b) == DoubleCmp(a, b) < 0

\* the significand hi * 2^27 + lo + 1 at exponent e, as a double
RoundedUp(hi, lo, e) ==
  IF lo + 1 < Half THEN [hi |-> hi, lo |-> lo + 1, e |-> e]
  ELSE IF hi + 1 < Top THEN [hi |-> hi + 1, lo |-> 0, e |-> e]
  ELSE [hi |-> Top \div 2, lo |-> 0, e |-> e + 1]

\* a + b for doubles a, b that are not 0.0, the exponent of b not above
\* that of a: b is aligned to a, the sum is rounded to nearest, ties to even
AddAligned(a, b) ==
  LET d == a.e - b.e
      d1 == d - 27
      \* floor(b / 2^d) in units of 2^(a.e)
      qhi == IF d < 27 THEN b.hi \div (2 ^ d) ELSE 0
      qlo == IF d < 27
             THEN (b.lo \div (2 ^ d)) + (b.hi % (2 ^ d)) * (2 ^ (27 - d))
             ELSE b.hi \div (2 ^ d1)
      \* the digits of b below 2^(a.e), against one half of 2^(a.e)
      rhi == IF d < 27 THEN 0 ELSE b.hi % (2 ^ d1)
      rlo == IF d < 27 THEN b.lo % (2 ^ d) ELSE b.lo
      hhi == IF d <= 27 THEN 0 ELSE 2 ^ (d1 - 1)
      hlo == IF d = 0 THEN 1 ELSE IF d <= 27 THEN 2 ^ (d - 1) ELSE 0
      rest == IF rhi # hhi THEN (IF rhi < hhi THEN 0 - 1 ELSE 1)
              ELSE IF rlo # hlo THEN (IF rlo < hlo THEN 0 - 1 ELSE 1)
              ELSE 0
      exact == rhi = 0 /\ rlo = 0
      slo == a.lo + qlo
      lo == slo % Half
      hi == a.hi + qhi + (slo \div Half)
  IN IF hi < Top
     THEN IF rest > 0 \/ (rest = 0 /\ lo % 2 = 1)
          THEN RoundedUp(hi, lo, a.e)
          ELSE [hi |-> hi, lo |-> lo, e |-> a.e]
     ELSE LET hi2 == hi \div 2
              lo2 == (lo \div 2) + (hi % 2) * (Half \div 2)
          IN IF lo % 2 = 1 /\ (~ exact \/ lo2 % 2 = 1)
             THEN RoundedUp(hi2, lo2, a.e + 1)
             ELSE [hi |-> hi2, lo |-> lo2, e |-> a.e + 1]

\* a + b of two doubles
DoubleAdd(a, b) ==
  IF IsZero(a) THEN b
  ELSE IF IsZero(b) THEN a
  ELSE IF a.e >= b.e
  THEN (IF a.e - b.e > Significand THEN a ELSE AddAligned(a, b))
  ELSE (IF b.e - a.e > Significand THEN b ELSE AddAligned(b, a))

----------------------------------------------------------------------------
(* Program constants *)

Eps == Decimal(1, 5)    \* the tolerance 1e-5 of the sampling loop

E0 == 0                        \* first endeffector id

X == "X"
Y == "Y"
Z == "Z"
Dims == {X, Y, Z}
kDim3d == Cardinality(Dims)
kPos == "kPos"
kVel == "kVel"

CubicHermite == "CubicHermite"
PolyCoeff    == "PolyCoeff"
OtherRepresentation == "OtherRepresentation"
Ipopt == "Ipopt"
Snopt == "Snopt"
OtherSolver == "OtherSolver"
TotalTime == "TotalTime"

Vec(x, y, z) == [d \in Dims |-> CASE d = X -> x [] d = Y -> y [] d = Z -> z]
VecAdd(a, b) == [d \in Dims |-> a[d] + b[d]]
ZeroVec == Vec(0, 0, 0)

\* Eigen bottomRows<1>: the last row of a 3d vector
bottomRows1(v) == [d \in {Z} |-> v[d]]

\* the sum of a sequence of doubles, accumulated from 0.0
RECURSIVE Sum(_)
Sum(s) == IF s = <<>> THEN Zero
          ELSE DoubleAdd(Sum(SubSeq(s, 1, Len(s) - 1)), s[Len(s)])

----------------------------------------------------------------------------
(* Identifiers (xpp/variables/variable_names.h) *)

Digit(d) == CASE d = 0 -> "0" [] d = 1 -> "1" [] d = 2 -> "2" [] d = 3 -> "3"
              [] d = 4 -> "4" [] d = 5 -> "5" [] d = 6 -> "6" [] d = 7 -> "7"
              [] d = 8 -> "8" [] d = 9 -> "9"

\* std::to_string of a non-negative int: its decimal digits
RECURSIVE to_string(_)
to_string(i) == IF i < 10 THEN Digit(i)
                ELSE to_string(i \div 10) \o Digit(i % 10)

base_linear  == "base_linear"
base_angular == "base_angular"
GetEEScheduleId(e) == "ee_schedule_" \o to_string(e)
GetEEXYMotionId(e) == "ee_motion_xy_" \o to_string(e)
GetEEZMotionId(e)  == "ee_motion_z_" \o to_string(e)
GetEEForceId(e)    == "ee_force_" \o to_string(e)

----------------------------------------------------------------------------
(* Robot model and construction of the facade *)

GetEEIDs == 0 .. (model_ - 1)
GetEECount == model_

\* nominal stance of endeffector e in the base frame
GetNominalStanceInBase(e) == Vec(2 + e, 5 + e, 0 - 4)

StateLin3d(p, v) == [p_ |-> p, v_ |-> v]

\* inital_base_ as left by BuildDefaultInitialState
DefaultInitialBase ==
  [lin |-> StateLin3d(Vec(0, 0, 0 - GetNominalStanceInBase(E0)[Z]), ZeroVec),
   ang |-> StateLin3d(Vec(0, 0, 0), ZeroVec)]

\* initial_ee_W_ as left by BuildDefaultInitialState
initial_ee_W_(e) ==
  [VecAdd(GetNominalStanceInBase(e), DefaultInitialBase.lin.p_) EXCEPT ![Z] = 0]

----------------------------------------------------------------------------
(* Blocks of the composite *)

NoInit == [from |-> ZeroVec, to |-> ZeroVec, times |-> <<>>]

Block(id, kind) ==
  [id |-> id, kind |-> kind, is_variable |-> TRUE, n_dim |-> kDim3d,
   ee |-> 0 - 1, n_polys |-> 0, contact_sequence |-> <<>>,
   durations |-> <<>>, duration_bounds |-> <<>>, init |-> NoInit,
   bounds |-> {}, observers |-> <<>>, poly_vars |-> <<>>]

\* Composite::AddComponent(block, is_variable)
AddComponent(comp, block, is_variable) ==
  Append(comp, [block EXCEPT !.is_variable = is_variable])

\* positions of the blocks stored under an identifier
Positions(comp, id) == {i \in 1 .. Len(comp) : comp[i].id = id}

\* Composite::GetComponent(id): position of the first block named id, 0 if none
GetComponent(comp, id) ==
  IF Positions(comp, id) = {} THEN 0
  ELSE CHOOSE i \in Positions(comp, id) : \A j \in Positions(comp, id) : i <= j

\* NodeValues::InitializeVariables(from, to, times): the nodes are seeded
\* between from and to and the segments are timed by times
InitializeVariables(block, from, to, times) ==
  [block EXCEPT !.init = [from |-> from, to |-> to, times |-> times],
                !.durations = times]

Bound(node, deriv, dims, value) ==
  {[node |-> node, deriv |-> deriv, dim |-> d, value |-> value[d]] : d \in dims}

\* NodeValues::AddStartBound(deriv, dimensions, value)
AddStartBound(block, deriv, dims, value) ==
  [block EXCEPT !.bounds = @ \cup Bound("first", deriv, dims, value)]

\* NodeValues::AddFinalBound(deriv, dimensions, value)
AddFinalBound(block, deriv, dims, value) ==
  [block EXCEPT !.bounds = @ \cup Bound("last", deriv, dims, value)]

\* ContactSchedule::GetContactSequence: first phase in contact, alternating
GetContactSequence(sched) == [i \in 1 .. Len(sched.durations) |-> i % 2 = 1]

\* ContactSchedule::GetTimePerPhase
GetTimePerPhase(sched) == sched.durations

\* ContactSchedule::GetTotalTime
GetTotalTime(sched) == Sum(sched.durations)

\* ContactSchedule::AddObserver(o)
AddObserver(comp, s, o) == [comp EXCEPT ![s].observers = Append(@, o)]

----------------------------------------------------------------------------
(* Inputs *)

\* contact timings of endeffector e under gait g; gait 0 is 0.4, 0.2, 0.4
ContactTimings(g, e) ==
  IF g = 0
  THEN <<Decimal(4, 1), Decimal(2, 1), Decimal(4, 1)>>
  ELSE [i \in 1 .. (1 + (g % 3)) |->
          Decimal(1 + (((g \div 3) + g + i + e) % MaxPhaseDur), 1)]

\* the desired final base state handed to the facade
FinalBase ==
  [lin |-> StateLin3d(Vec(1, 2, 3), Vec(4, 5, 6)),
   ang |-> StateLin3d(Vec(7, 8, 9), Vec(10, 11, 12))]

\* the parameter sets offered: every base representation, with and without
\* optimized timings, for each gait g, which comes with its own number of
\* force polynomials and of base polynomials
ForcePolys(g) == 1 + (g % MaxForcePolys)
BasePolys(g) == 1 + ((g + 1) % MaxBasePolys)

ParamsChoices ==
  { [base_representation |-> r,
     contact_timings_ |-> [e \in 0 .. (MaxEE - 1) |-> ContactTimings(g, e)],
     min_phase_duration_ |-> Decimal(1, 1),
     max_phase_duration_ |-> Decimal(MaxPhaseDur + 1, 1),
     optimize_timings |-> o,
     force_splines_per_stance_phase_ |-> ForcePolys(g),
     order_coeff_polys_ |-> 4,
     base_poly_durations |-> [i \in 1 .. BasePolys(g) |-> Decimal(2, 0)]] :
     r \in {CubicHermite, PolyCoeff, OtherRepresentation},
     g \in 0 .. MaxGait, o \in BOOLEAN }

\* OptimizationParameters::ConstraintExists(name)
ConstraintExists(name) == name = TotalTime /\ params_.optimize_timings

\* OptimizationParameters::GetUsedConstraints
GetUsedConstraints ==
  IF params_.optimize_timings THEN <<"Dynamic", TotalTime>> ELSE <<"Dynamic">>

\* OptimizationParameters::GetCostWeights
GetCostWeights == <<"ComCostID">>

One == Decimal(1, 0)
Tenth == Decimal(1, 1)
Third == Decimal(33, 2)          \* 0.33
Eleventh == Decimal(9091, 5)     \* 0.09091: 11 * 0.09091 is 1 + 1e-5

\* sampling steps offered to GetTrajectories: 0.1, 0.2, ..., and 0.33,
\* 0.09091 and 1.000005
DtChoices ==
  {Decimal(k, 1) : k \in 1 .. MaxDt}
    \cup {Third, Eleventh, Decimal(1000005, 6)}

NoNlp == [initialized |-> FALSE, constraints |-> <<>>, costs |-> <<>>,
          solved_by |-> "none", x_prev |-> <<>>, printed |-> FALSE]

Init ==
  /\ params_ \in ParamsChoices
  /\ model_ \in 1 .. MaxEE
  /\ ndebug = "unobserved"
  /\ inital_base_ = DefaultInitialBase
  /\ final_base_ = FinalBase
  /\ pc = "idle"
  /\ solver = "none"
  /\ opt_variables = <<>>
  /\ contact_schedule = <<>>
  /\ ee = 0
  /\ nlp = NoNlp
  /\ dt = Zero
  /\ iter = 0
  /\ trajectories = <<>>
  /\ T = Zero
  /\ t = Zero
  /\ trajectory = <<>>

----------------------------------------------------------------------------
(* SetBaseRepresentationHermite *)

\* a spline whose last node position is fixed on every axis
HermiteSplineAllAxes(id, init, final, timings) ==
  LET s0 == [Block(id, "NodeValues") EXCEPT !.n_polys = Len(timings),
                                            !.durations = timings]
      s1 == InitializeVariables(s0, init.p_, final.p_, timings)
      s2 == AddStartBound(s1, kPos, {X, Y, Z}, init.p_)
      s3 == AddStartBound(s2, kVel, {X, Y, Z}, init.v_)
      s4 == AddFinalBound(s3, kVel, {X, Y, Z}, final.v_)
  IN AddFinalBound(s4, kPos, {X, Y, Z}, final.p_)

\* the body of the loop over {linear, angular}: the spline of one axis group
HermiteSpline(id, init, final, timings) ==
  LET s0 == [Block(id, "NodeValues") EXCEPT !.n_polys = Len(timings),
                                            !.durations = timings]
      s1 == InitializeVariables(s0, init.p_, final.p_, timings)
      s2 == AddStartBound(s1, kPos, {X, Y, Z}, init.p_)
      s3 == AddStartBound(s2, kVel, {X, Y, Z}, init.v_)
      s4 == AddFinalBound(s3, kVel, {X, Y, Z}, final.v_)
      s5 == IF id = base_linear
            THEN AddFinalBound(s4, kPos, {X, Y}, final.p_) ELSE s4
      s6 == IF id = base_angular
            THEN AddFinalBound(s5, kPos, {Z}, final.p_) ELSE s5
  IN s6

SetBaseRepresentationHermite(comp) ==
  LET timings == params_.base_poly_durations
      c1 == AddComponent(comp, HermiteSpline(base_linear, inital_base_.lin,
                                             final_base_.lin, timings), TRUE)
      c2 == AddComponent(c1, HermiteSpline(base_angular, inital_base_.ang,
                                           final_base_.ang, timings), TRUE)
  IN c2

----------------------------------------------------------------------------
(* SetBaseRepresentationCoeff *)

\* an identifier that leaves the index of the polynomial out
PolyVarsIdNoIndex(id, i) == id

\* the identifier of the i-th polynomial of the spline named id
PolyVarsId(id, i) == id \o to_string(i)

\* the identifier under which the aggregate spline of group id is stored
CoeffSplineId(id) == id

\* one axis group: n PolynomialVars blocks, then the aggregate CoeffSpline
CoeffGroup(comp, id, from, to) ==
  LET timings == params_.base_poly_durations
      n == Len(timings)
      first == Len(comp)
      polys == [i \in 1 .. n |->
                 [Block(PolyVarsId(id, i - 1), "PolynomialVars")
                    EXCEPT !.n_polys = params_.order_coeff_polys_]]
      spline == InitializeVariables(
                  [Block(CoeffSplineId(id), "CoeffSpline")
                     EXCEPT !.durations = timings, !.n_polys = n,
                            !.poly_vars = [i \in 1 .. n |-> first + i]],
                  from, to, timings)
  IN AddComponent(comp \o polys, spline, FALSE)

SetBaseRepresentationCoeff(comp) ==
  LET c1 == CoeffGroup(comp, base_angular,
                       inital_base_.ang.p_, final_base_.ang.p_)
      c2 == CoeffGroup(c1, base_linear,
                       inital_base_.lin.p_, final_base_.lin.p_)
  IN c2

----------------------------------------------------------------------------
(* SolveProblem, first statement: the call of BuildVariables, up to the    *)
(* switch over the base representation                                     *)

SolveProblem ==
  /\ pc = "idle"
  /\ \E sv \in {Ipopt, Snopt, OtherSolver} : solver' = sv
  /\ opt_variables' = <<>>            \* make_shared<Composite>, ClearComponents
  /\ contact_schedule' = <<>>
  /\ pc' = "bv_base"
  /\ UNCHANGED <<params_, model_, ndebug, inital_base_, final_base_, ee, nlp,
                 dt, iter, trajectories, T, t, trajectory>>

\* what a build can be found to be at an assert: with NDEBUG defined the
\* assert is compiled out, and a build is the same at every assert
AssertBuilds(seen) ==
  IF seen = "unobserved" THEN {"defined", "undefined"} ELSE {seen}

\* the switch of BuildVariables; assert(false) aborts unless NDEBUG is defined
BuildVariablesBase ==
  /\ pc = "bv_base"
  /\ CASE params_.base_representation = CubicHermite ->
            /\ opt_variables' = SetBaseRepresentationHermite(opt_variables)
            /\ pc' = "bv_schedule"
            /\ ndebug' = ndebug
       [] params_.base_representation = PolyCoeff ->
            /\ opt_variables' = SetBaseRepresentationCoeff(opt_variables)
            /\ pc' = "bv_schedule"
            /\ ndebug' = ndebug
       [] OTHER ->
            /\ opt_variables' = opt_variables
            /\ \E b \in AssertBuilds(ndebug) :
                 /\ ndebug' = b
                 /\ pc' = IF b = "defined" THEN "bv_schedule" ELSE "aborted"
  /\ ee' = 0
  /\ UNCHANGED <<params_, model_, inital_base_, final_base_, solver,
                 contact_schedule, nlp, dt, iter, trajectories, T, t,
                 trajectory>>

\* make_shared<ContactSchedule>(ee, timings, min duration, max duration)
NewContactSchedule(e) ==
  [Block(GetEEScheduleId(e), "ContactSchedule")
     EXCEPT !.ee = e, !.durations = params_.contact_timings_[e],
            !.duration_bounds = <<params_.min_phase_duration_,
                                  params_.max_phase_duration_>>]

\* the limb loops leave for the next statement after the last endeffector
AfterLimb(e, again, next) == IF e + 1 < GetEECount THEN again ELSE next

\* one iteration of the first loop over the endeffectors
BuildVariablesSchedule ==
  /\ pc = "bv_schedule"
  /\ ee \in GetEEIDs
  /\ opt_variables' = AddComponent(opt_variables, NewContactSchedule(ee),
                                   ConstraintExists(TotalTime))
  /\ contact_schedule' = Append(contact_schedule, Len(opt_variables) + 1)
  /\ pc' = AfterLimb(ee, "bv_schedule", "bv_motion")
  /\ ee' = IF ee + 1 < GetEECount THEN ee + 1 ELSE 0
  /\ UNCHANGED <<params_, model_, ndebug, inital_base_, final_base_, solver,
                 nlp, dt, iter, trajectories, T, t, trajectory>>

\* number of polynomials per swing phase of the xy motion of a limb
PolysXYMotion == 1

\* the z motion built like the xy motion
PolysZMotionAsXY == PolysXYMotion

\* number of polynomials per swing phase of the z motion of a limb
PolysZMotion == 2

\* number of polynomials per stance phase of the force of a limb
PolysForce == params_.force_splines_per_stance_phase_

\* make_shared<EndeffectorNodes>(kDim3d, sequence, id, n_polys)
EndeffectorNodes(e, sched, id, n_polys) ==
  [Block(id, "EndeffectorNodes")
     EXCEPT !.ee = e, !.contact_sequence = GetContactSequence(sched),
            !.n_polys = n_polys]

\* make_shared<ForceNodes>(kDim3d, sequence, id, n_polys, force limit)
ForceNodes(e, sched, id, n_polys) ==
  [Block(id, "ForceNodes")
     EXCEPT !.ee = e, !.contact_sequence = GetContactSequence(sched),
            !.n_polys = n_polys]

\* every spline built from the schedule of the first endeffector
ScheduleOfFirst(e) == E0

\* the schedule the splines of endeffector e are built from and observe
ScheduleOf(e) == e

\* one iteration of the loop "Endeffector Motions"
MotionsOf(comp, e) ==
  LET s == contact_schedule[ScheduleOf(e) + 1]
      sched == comp[s]
      final_ee_pos_W == VecAdd(final_base_.lin.p_, GetNominalStanceInBase(e))
      xy0 == EndeffectorNodes(e, sched, GetEEXYMotionId(e), PolysXYMotion)
      xy1 == InitializeVariables(xy0, initial_ee_W_(e), final_ee_pos_W,
                                 GetTimePerPhase(sched))
      xy2 == AddStartBound(xy1, kPos, {X, Y}, initial_ee_W_(e))
      c1  == AddObserver(AddComponent(comp, xy2, TRUE), s, Len(comp) + 1)
      z0  == EndeffectorNodes(e, sched, GetEEZMotionId(e), PolysZMotion)
      z1  == InitializeVariables(z0, bottomRows1(initial_ee_W_(e)),
                                 bottomRows1(final_ee_pos_W),
                                 GetTimePerPhase(sched))
      c2  == AddObserver(AddComponent(c1, z1, TRUE), s, Len(c1) + 1)
  IN c2

BuildVariablesMotion ==
  /\ pc = "bv_motion"
  /\ ee \in GetEEIDs
  /\ opt_variables' = MotionsOf(opt_variables, ee)
  /\ pc' = AfterLimb(ee, "bv_motion", "bv_force")
  /\ ee' = IF ee + 1 < GetEECount THEN ee + 1 ELSE 0
  /\ UNCHANGED <<params_, model_, ndebug, inital_base_, final_base_, solver,
                 contact_schedule, nlp, dt, iter, trajectories, T, t,
                 trajectory>>

\* standing force of the robot model along z
GetStandingZForce == 7

\* one iteration of the loop "Endeffector Forces"
ForcesOf(comp, e) ==
  LET s == contact_schedule[ScheduleOf(e) + 1]
      sched == comp[s]
      f_stance == Vec(0, 0, GetStandingZForce)
      f0 == ForceNodes(e, sched, GetEEForceId(e), PolysForce)
      f1 == InitializeVariables(f0, f_stance, f_stance, GetTimePerPhase(sched))
  IN AddObserver(AddComponent(comp, f1, TRUE), s, Len(comp) + 1)

BuildVariablesForce ==
  /\ pc = "bv_force"
  /\ ee \in GetEEIDs
  /\ opt_variables' = ForcesOf(opt_variables, ee)
  /\ pc' = AfterLimb(ee, "bv_force", "bv_return")
  /\ ee' = IF ee + 1 < GetEECount THEN ee + 1 ELSE 0
  /\ UNCHANGED <<params_, model_, ndebug, inital_base_, final_base_, solver,
                 contact_schedule, nlp, dt, iter, trajectories, T, t,
                 trajectory>>

----------------------------------------------------------------------------
(* SolveProblem after BuildVariables has returned *)

\* BuildVariables returns; nlp.Init(variables); BuildCostConstraints(variables)
BuildCostConstraints ==
  /\ pc = "bv_return"
  /\ nlp' = [nlp EXCEPT !.initialized = TRUE,
                        !.constraints = GetUsedConstraints,
                        !.costs = GetCostWeights]
  /\ contact_schedule' = <<>>        \* the local vector goes out of scope
  /\ pc' = "solve"
  /\ UNCHANGED <<params_, model_, ndebug, inital_base_, final_base_, solver,
                 opt_variables, ee, dt, iter, trajectories, T, t,
                 trajectory>>

\* the values a solver can move the phase durations that are free to: every
\* duration at its lower or at its upper bound, or the initial values
SolverAssignments ==
  IF params_.optimize_timings THEN {"lower", "upper"} ELSE {"initial"}

\* the values recorded by a solver that takes n iterations to reach x: the
\* initial values first
Iterations(n, x) == [i \in 1 .. n |-> IF i = 1 THEN "initial" ELSE x]

\* the phase durations of schedule block sched under the assignment x
AssignedDurations(sched, x) ==
  CASE x = "initial" -> params_.contact_timings_[sched.ee]
    [] x = "lower" ->
         [i \in 1 .. Len(sched.durations) |-> sched.duration_bounds[1]]
    [] x = "upper" ->
         [i \in 1 .. Len(sched.durations) |-> sched.duration_bounds[2]]

\* Composite::SetVariables(x): every schedule that is a variable takes the
\* durations of x and, before the call returns, notifies its observers, which
\* re-time their segments
SetVariables(comp, x) ==
  LET Free(i) == comp[i].kind = "ContactSchedule" /\ comp[i].is_variable
      Observed(i) ==
        {j \in 1 .. Len(comp) :
           Free(j) /\ \E k \in 1 .. Len(comp[j].observers) :
                        comp[j].observers[k] = i}
  IN [i \in 1 .. Len(comp) |->
        IF Free(i)
        THEN [comp[i] EXCEPT !.durations = AssignedDurations(comp[i], x)]
        ELSE IF Observed(i) # {}
        THEN [comp[i] EXCEPT !.durations =
                AssignedDurations(comp[CHOOSE j \in Observed(i) : TRUE], x)]
        ELSE comp[i]]

\* NLP::GetIterationCount
GetIterationCount == Len(nlp.x_prev)

\* NLP::GetOptVariables(iter): the composite holding the values of iteration
\* iter
GetOptVariables(i) == SetVariables(opt_variables, nlp.x_prev[i + 1])

\* the switch over the solver; assert(false) aborts unless NDEBUG is defined.
\* A solver records the values of each of its iterations and leaves the
\* composite holding those of the last one.
Solve ==
  /\ pc = "solve"
  /\ CASE solver \in {Ipopt, Snopt} ->
            /\ \E n \in 1 .. MaxIter :
                 \E x \in (IF n = 1 THEN {"initial"} ELSE SolverAssignments) :
                   /\ nlp' = [nlp EXCEPT !.solved_by = solver,
                                         !.x_prev = Iterations(n, x)]
                   /\ opt_variables' = SetVariables(opt_variables, x)
            /\ pc' = "print"
            /\ ndebug' = ndebug
       [] OTHER ->
            /\ nlp' = nlp
            /\ opt_variables' = opt_variables
            /\ \E b \in AssertBuilds(ndebug) :
                 /\ ndebug' = b
                 /\ pc' = IF b = "defined" THEN "print" ELSE "aborted"
  /\ UNCHANGED <<params_, model_, inital_base_, final_base_, solver,
                 contact_schedule, ee, dt, iter, trajectories, T, t,
                 trajectory>>

\* nlp.PrintCurrent()
PrintCurrent ==
  /\ pc = "print"
  /\ nlp' = [nlp EXCEPT !.printed = TRUE]
  /\ pc' = "solved"
  /\ UNCHANGED <<params_, model_, ndebug, inital_base_, final_base_, solver,
                 opt_variables, contact_schedule, ee, dt, iter, trajectories,
                 T, t, trajectory>>

----------------------------------------------------------------------------
(* GetTrajectories *)

\* entry of GetTrajectories(dt): the result is empty and iter = 0
GetTrajectories ==
  /\ pc = "solved"
  /\ \E step \in DtChoices : dt' = step
  /\ iter' = 0
  /\ trajectories' = <<>>
  /\ pc' = "gt_loop"
  /\ UNCHANGED <<params_, model_, ndebug, inital_base_, final_base_, solver,
                 opt_variables, contact_schedule, ee, nlp, T, t, trajectory>>

\* iter < nlp.GetIterationCount(): opt_var = nlp.GetOptVariables(iter) and
\* the call BuildTrajectory(opt_var, dt)
GetTrajectoriesIteration ==
  /\ pc = "gt_loop"
  /\ iter < GetIterationCount
  /\ opt_variables' = GetOptVariables(iter)
  /\ pc' = "traj_entry"
  /\ UNCHANGED <<params_, model_, ndebug, inital_base_, final_base_, solver,
                 contact_schedule, ee, nlp, dt, iter, trajectories, T, t,
                 trajectory>>

\* trajectories.push_back of the trajectory BuildTrajectory returned; ++iter
GetTrajectoriesPushBack ==
  /\ pc = "traj_done"
  /\ trajectories' = Append(trajectories, trajectory)
  /\ iter' = iter + 1
  /\ pc' = "gt_loop"
  /\ UNCHANGED <<params_, model_, ndebug, inital_base_, final_base_, solver,
                 opt_variables, contact_schedule, ee, nlp, dt, T, t,
                 trajectory>>

\* the loop condition is false: return trajectories
GetTrajectoriesReturn ==
  /\ pc = "gt_loop"
  /\ ~ (iter < GetIterationCount)
  /\ pc' = "gt_done"
  /\ UNCHANGED <<params_, model_, ndebug, inital_base_, final_base_, solver,
                 opt_variables, contact_schedule, ee, nlp, dt, iter,
                 trajectories, T, t, trajectory>>

----------------------------------------------------------------------------
(* BuildTrajectory *)

\* a loop condition without the tolerance
InLoopNoTolerance(time, total) == DoubleLe(time, total)

\* the condition of the while loop: t <= T + 1e-5
InLoop(time, total) == DoubleLe(time, DoubleAdd(total, Eps))

\* a step that is added twice
NextSampleTimeTwice(time, step) == DoubleAdd(DoubleAdd(time, step), step)

\* t += dt
NextSampleTime(time, step) == DoubleAdd(time, step)

\* the time handed to GetPoint and IsInContact for the sample taken at time
QueryTime(time, total) == time

\* Spline::GetPoint(t) and ContactSchedule::IsInContact(t) of block i
Query(comp, i, time) == [block |-> comp[i].id, t |-> time]

\* the identifiers looked up while one sample is taken
SampleLookups ==
  {base_linear, base_angular}
    \cup {GetEEScheduleId(e) : e \in GetEEIDs}
    \cup {GetEEXYMotionId(e) : e \in GetEEIDs}
    \cup {GetEEForceId(e) : e \in GetEEIDs}

\* the RobotStateCartesian of the sample taken at time
RobotStateCartesian(comp, time, total) ==
  LET q == QueryTime(time, total)
      At(id) == Query(comp, GetComponent(comp, id), q)
  IN [t_global_ |-> time,
      base_ |-> [lin |-> At(base_linear), ang |-> At(base_angular)],
      ee_contact_ |-> [e \in GetEEIDs |-> At(GetEEScheduleId(e))],
      ee_motion_  |-> [e \in GetEEIDs |-> At(GetEEXYMotionId(e))],
      ee_forces_  |-> [e \in GetEEIDs |-> At(GetEEForceId(e))]]

\* entry of BuildTrajectory: t = 0.0 and T read from the schedule of E0
BuildTrajectory ==
  /\ pc = "traj_entry"
  /\ LET s == GetComponent(opt_variables, GetEEScheduleId(E0))
     IN IF s = 0
        THEN /\ pc' = "lookup_error"
             /\ T' = T
        ELSE /\ T' = GetTotalTime(opt_variables[s])
             /\ pc' = "traj_loop"
  /\ t' = Zero
  /\ trajectory' = <<>>
  /\ UNCHANGED <<params_, model_, ndebug, inital_base_, final_base_, solver,
                 opt_variables, contact_schedule, ee, nlp, dt, iter,
                 trajectories>>

\* the body of the while loop, leaving the composite as after
TakeSample(after) ==
  /\ pc = "traj_loop"
  /\ InLoop(t, T)
  /\ IF \E id \in SampleLookups : GetComponent(opt_variables, id) = 0
     THEN /\ pc' = "lookup_error"
          /\ UNCHANGED <<t, trajectory>>
     ELSE /\ trajectory' =
               Append(trajectory, RobotStateCartesian(opt_variables, t, T))
          /\ t' = NextSampleTime(t, dt)
          /\ pc' = pc
  /\ opt_variables' = after
  /\ UNCHANGED <<params_, model_, ndebug, inital_base_, final_base_, solver,
                 contact_schedule, ee, nlp, dt, iter, trajectories, T>>

\* a loop body that drops the observers of every block it has queried
BuildTrajectorySampleDetaching ==
  TakeSample([i \in 1 .. Len(opt_variables) |->
                [opt_variables[i] EXCEPT !.observers = <<>>]])

\* one iteration of the while loop: the composite is only read
BuildTrajectorySample == TakeSample(opt_variables)

\* the loop condition is false: return trajectory
BuildTrajectoryReturn ==
  /\ pc = "traj_loop"
  /\ ~ InLoop(t, T)
  /\ pc' = "traj_done"
  /\ UNCHANGED <<params_, model_, ndebug, inital_base_, final_base_, solver,
                 opt_variables, contact_schedule, ee, nlp, dt, iter,
                 trajectories, T, t, trajectory>>

----------------------------------------------------------------------------

Next ==
  \/ SolveProblem
  \/ BuildVariablesBase
  \/ BuildVariablesSchedule
  \/ BuildVariablesMotion
  \/ BuildVariablesForce
  \/ BuildCostConstraints
  \/ Solve
  \/ PrintCurrent
  \/ GetTrajectories
  \/ GetTrajectoriesIteration
  \/ BuildTrajectory
  \/ BuildTrajectorySample
  \/ BuildTrajectoryReturn
  \/ GetTrajectoriesPushBack
  \/ GetTrajectoriesReturn

Spec == Init /\ [][Next]_vars

\* the loops of GetTrajectories and BuildTrajectory run without suspension
FairSpec ==
  /\ Spec
  /\ WF_vars(BuildTrajectorySample)
  /\ WF_vars(BuildTrajectoryReturn)

----------------------------------------------------------------------------
(* Properties of BuildTrajectory *)

Done == pc = "traj_done"

\* the product k * a of an int 0 <= k <= Limb and a double, as a double
Times(k, a) ==
  Round(BMul(BAdd(BShl(FromInt(a.hi), 27), FromInt(a.lo)), k), a.e, FALSE)

InTrajectory == pc \in {"traj_loop", "traj_done"}

\* the limit T + 1e-5 of the loop as the code computes it
Limit == DoubleAdd(T, Eps)

\* the times handed to the blocks for one RobotState
QueryTimes(state) ==
  {state.base_.lin.t, state.base_.ang.t}
    \cup {state.ee_contact_[e].t : e \in GetEEIDs}
    \cup {state.ee_motion_[e].t : e \in GetEEIDs}
    \cup {state.ee_forces_[e].t : e \in GetEEIDs}

\* C1 as stated: with T the total time of the schedule of E0, the trajectory
\* holds exactly one state for each k >= 0 with k*dt <= T + 1e-5, the k-th
\* state carrying t_global_ = k*dt; T = 1.0 and dt = 0.1 give 11 states.
C1_OneStatePerMultiple ==
  Done =>
    /\ T = GetTotalTime(
             opt_variables[GetComponent(opt_variables, GetEEScheduleId(E0))])
    /\ \A k \in 1 .. Len(trajectory) :
         /\ trajectory[k].t_global_ = Times(k - 1, dt)
         /\ DoubleLe(Times(k - 1, dt), Limit)
    /\ ~ DoubleLe(Times(Len(trajectory), dt), Limit)
    /\ (T = One /\ dt = Tenth) => Len(trajectory) = 11

\* C1 as amended: with T the total time of the schedule of E0, the trajectory
\* holds exactly one state for each k >= 0 whose time t_k is at most the
\* double T + 1e-5, where t_0 = 0 and t_(k+1) is the double t_k + dt (k*dt up
\* to the rounding of the additions); the k-th state carries t_global_ = t_k;
\* T = 1.0 and dt = 0.1 give 11 states (and so do T = 1.0 and dt = 0.09091).
C1_OneStatePerSample ==
  Done =>
    LET limit == Limit
        n == Len(trajectory)
        next == DoubleAdd(trajectory[n].t_global_, dt)
    IN /\ T = GetTotalTime(
                opt_variables[GetComponent(opt_variables, GetEEScheduleId(E0))])
       /\ n >= 1
       /\ \A k \in 1 .. n :
            /\ trajectory[k].t_global_ =
                 (IF k = 1 THEN Zero
                  ELSE DoubleAdd(trajectory[k - 1].t_global_, dt))
            /\ DoubleLe(trajectory[k].t_global_, limit)
       /\ DoubleLt(limit, next)
       /\ (T = One /\ dt = Tenth) => n = 11
       /\ (T = One /\ dt = Eleventh) => n = 11

C1_Witness ==
  /\ Done
  /\ T = One
  /\ dt = Tenth
  /\ Len(trajectory) = 11
  /\ DoubleLt(trajectory[11].t_global_, One)
  /\ iter = 1

\* C2 as stated: T = 1.0 and dt = 0.33 give 5 states.
C2_FiveStates ==
  (Done /\ T = One /\ dt = Third) => Len(trajectory) = 5

\* C2 as amended: T = 1.0 and dt = 0.33 give floor((1.0 + 1e-5)/0.33) + 1 = 4
\* states, at t = 0, 0.33, 0.66 and 0.99.
C2_FourStates ==
  (Done /\ T = One /\ dt = Third) =>
     /\ Len(trajectory) = 4
     /\ trajectory[1].t_global_ = Zero
     /\ trajectory[2].t_global_ = Third
     /\ trajectory[3].t_global_ = DoubleAdd(Third, Third)
     /\ trajectory[4].t_global_ = DoubleAdd(DoubleAdd(Third, Third), Third)
     /\ DoubleLt(trajectory[4].t_global_, T)

C2_Witness ==
  /\ Done
  /\ T = One
  /\ dt = Third
  /\ Len(trajectory) = 4

\* C3: a sample whose time exceeds T by no more than the tolerance is taken,
\* and the time handed to every block query for it is T, never more than T.
C3_QueriesWithinSchedule ==
  InTrajectory =>
    \A k \in 1 .. Len(trajectory) :
      \A q \in QueryTimes(trajectory[k]) :
        /\ DoubleLe(q, T)
        /\ DoubleLt(T, trajectory[k].t_global_) => q = T

----------------------------------------------------------------------------
(* Properties of BuildVariables and SolveProblem *)

BeforeBase == {"idle", "bv_base"}
Building   == {"bv_schedule", "bv_motion", "bv_force"}
Returned   == {"bv_return", "solve", "print", "solved", "gt_loop",
               "traj_entry", "traj_loop", "traj_done", "lookup_error",
               "gt_done"}

KnownRepresentation == params_.base_representation \in {CubicHermite, PolyCoeff}

\* C4: an unrecognized base representation stops BuildVariables before any
\* block is created, and an unrecognized solver stops SolveProblem without a
\* solver run and without nlp.PrintCurrent.
C4_ConfigurationErrorStops ==
  /\ (~ KnownRepresentation /\ pc \notin BeforeBase) =>
        /\ pc = "aborted"
        /\ opt_variables = <<>>
        /\ contact_schedule = <<>>
  /\ (solver = OtherSolver /\ pc \notin (BeforeBase \cup Building
                                          \cup {"bv_return", "solve"})) =>
        /\ pc = "aborted"
        /\ nlp.solved_by = "none"
        /\ ~ nlp.printed

\* the boundary constraints C5 states for one base spline
ExpectedBounds(init, final, enddims) ==
  {[node |-> "first", deriv |-> kPos, dim |-> d, value |-> init.p_[d]] :
      d \in {X, Y, Z}}
   \cup {[node |-> "first", deriv |-> kVel, dim |-> d, value |-> init.v_[d]] :
      d \in {X, Y, Z}}
   \cup {[node |-> "last", deriv |-> kVel, dim |-> d, value |-> final.v_[d]] :
      d \in {X, Y, Z}}
   \cup {[node |-> "last", deriv |-> kPos, dim |-> d, value |-> final.p_[d]] :
      d \in enddims}

\* C5: under the Hermite strategy each base spline carries exactly: first
\* node position and velocity fixed on X,Y,Z to the initial state, last node
\* velocity fixed on X,Y,Z to the final velocity, last node position fixed on
\* {X,Y} only (linear) and on the yaw axis Z only (angular).
C5_HermiteBoundaryConstraints ==
  (params_.base_representation = CubicHermite /\ pc \notin BeforeBase) =>
    LET lin == GetComponent(opt_variables, base_linear)
        ang == GetComponent(opt_variables, base_angular)
    IN /\ lin # 0
       /\ ang # 0
       /\ opt_variables[lin].bounds =
            ExpectedBounds(inital_base_.lin, final_base_.lin, {X, Y})
       /\ opt_variables[ang].bounds =
            ExpectedBounds(inital_base_.ang, final_base_.ang, {Z})

C5_Witness ==
  /\ params_.base_representation = CubicHermite
  /\ pc = "solved"
  /\ GetComponent(opt_variables, base_angular) # 0
  /\ \A d \in Dims : /\ inital_base_.lin.p_[d] # final_base_.lin.p_[d]
                     /\ inital_base_.lin.v_[d] # final_base_.lin.v_[d]

\* the identifiers of the blocks that belong to no endeffector
BaseBlocks == {i \in 1 .. Len(opt_variables) : opt_variables[i].ee < 0}
BaseIds == {opt_variables[i].id : i \in BaseBlocks}

\* C6: after BuildVariables the base identifiers are base_linear and
\* base_angular, one block each (Hermite), or base_linear+i and base_angular+i
\* for i in 0..n-1 plus one aggregate under base_linear and one under
\* base_angular (coefficient); all identifiers are pairwise distinct and the
\* lookups of base_linear and base_angular by BuildTrajectory succeed.
C6_BaseIdentifiers ==
  (KnownRepresentation /\ pc \in Returned) =>
    LET n == Len(params_.base_poly_durations)
    IN /\ params_.base_representation = CubicHermite =>
            /\ BaseIds = {base_linear, base_angular}
            /\ Cardinality(BaseBlocks) = 2
       /\ params_.base_representation = PolyCoeff =>
            /\ BaseIds = {base_linear, base_angular}
                 \cup {base_linear \o to_string(i) : i \in 0 .. (n - 1)}
                 \cup {base_angular \o to_string(i) : i \in 0 .. (n - 1)}
            /\ Cardinality(BaseBlocks) = 2 * n + 2
            /\ \A id \in {base_linear, base_angular} :
                 opt_variables[GetComponent(opt_variables, id)].kind
                   = "CoeffSpline"
       /\ \A i, j \in 1 .. Len(opt_variables) :
            opt_variables[i].id = opt_variables[j].id => i = j
       /\ GetComponent(opt_variables, base_linear) # 0
       /\ GetComponent(opt_variables, base_angular) # 0
       /\ pc # "lookup_error"

C6_Witness ==
  /\ params_.base_representation = PolyCoeff
  /\ Len(params_.base_poly_durations) >= 2
  /\ Done
  /\ Len(trajectory) >= 2

\* C7: BuildTrajectory never changes the composite.
C7_CompositeUnchanged ==
  [][(pc \in {"traj_entry", "traj_loop"}) =>
       (opt_variables' = opt_variables)]_vars

C7_Witness ==
  /\ Done
  /\ Len(trajectory) >= 3
  /\ \E i \in 1 .. Len(opt_variables) : opt_variables[i].observers # <<>>

LimbSplines ==
  {i \in 1 .. Len(opt_variables) :
     opt_variables[i].kind \in {"EndeffectorNodes", "ForceNodes"}}

Schedules ==
  {i \in 1 .. Len(opt_variables) : opt_variables[i].kind = "ContactSchedule"}

\* C8: every schedule is in the composite before any limb spline is built;
\* every spline takes its phases and phase times from, and observes, the
\* schedule of its own limb only, and is timed by the durations of that
\* schedule; on return each schedule has exactly the
\* xy-motion, z-motion and force splines of its limb as observers, once each,
\* all of them blocks of the composite.
C8_SchedulesBeforeSplines ==
  /\ LimbSplines # {} =>
       \A e \in GetEEIDs :
         /\ GetComponent(opt_variables, GetEEScheduleId(e)) # 0
         /\ \A i \in LimbSplines :
              GetComponent(opt_variables, GetEEScheduleId(e)) < i
  /\ \A i \in LimbSplines :
       LET b == opt_variables[i]
           s == GetComponent(opt_variables, GetEEScheduleId(b.ee))
       IN /\ b.contact_sequence = GetContactSequence(opt_variables[s])
          /\ b.init.times = params_.contact_timings_[b.ee]
          /\ b.durations = opt_variables[s].durations
          /\ \A j \in Schedules :
               (\E k \in 1 .. Len(opt_variables[j].observers) :
                   opt_variables[j].observers[k] = i) <=> j = s
  /\ pc \in Returned =>
       \A e \in GetEEIDs :
         LET s == GetComponent(opt_variables, GetEEScheduleId(e))
             obs == opt_variables[s].observers
         IN /\ Len(obs) = 3
            /\ {obs[k] : k \in 1 .. 3} \subseteq 1 .. Len(opt_variables)
            /\ {opt_variables[obs[k]].id : k \in 1 .. 3} =
                 {GetEEXYMotionId(e), GetEEZMotionId(e), GetEEForceId(e)}

C8_Witness ==
  /\ pc = "bv_return"
  /\ model_ >= 2
  /\ params_.contact_timings_[0] # params_.contact_timings_[1]
  /\ Len(opt_variables[GetComponent(opt_variables,
                                    GetEEScheduleId(1))].observers) = 3

\* C9 as stated: every limb-motion spline is built with segment count 1 and
\* every force spline with force_splines_per_stance_phase_.
C9_MotionSegmentCountOne ==
  \A i \in LimbSplines :
    /\ opt_variables[i].kind = "EndeffectorNodes" =>
         opt_variables[i].n_polys = 1
    /\ opt_variables[i].kind = "ForceNodes" =>
         opt_variables[i].n_polys = params_.force_splines_per_stance_phase_

\* C9 as amended: the xy-motion spline of every limb is built with count 1,
\* its z-motion spline with count 2 and its force spline with
\* force_splines_per_stance_phase_.
C9_SegmentCounts ==
  \A i \in LimbSplines :
    LET b == opt_variables[i]
    IN /\ b.id = GetEEXYMotionId(b.ee) => b.n_polys = 1
       /\ b.id = GetEEZMotionId(b.ee) => b.n_polys = 2
       /\ b.id = GetEEForceId(b.ee) =>
            b.n_polys = params_.force_splines_per_stance_phase_
       /\ b.id \in {GetEEXYMotionId(b.ee), GetEEZMotionId(b.ee),
                    GetEEForceId(b.ee)}

C9_Witness ==
  /\ pc = "bv_return"
  /\ params_.force_splines_per_stance_phase_ > 1
  /\ \A e \in GetEEIDs :
       /\ GetComponent(opt_variables, GetEEZMotionId(e)) # 0
       /\ GetComponent(opt_variables, GetEEForceId(e)) # 0

\* C10: for dt > 0 the loop of BuildTrajectory terminates: t grows by dt in
\* every iteration and the loop is left at the first t above T + 1e-5, after
\* finitely many samples.
C10_LoopTerminates ==
  /\ [][(pc = "traj_loop" /\ pc' = "traj_loop") =>
          (t' = DoubleAdd(t, dt) /\ DoubleLt(t, t'))]_vars
  /\ [][(pc = "traj_loop" /\ pc' = "traj_done") =>
          /\ DoubleLt(Limit, t)
          /\ trajectory # <<>>
          /\ DoubleLe(trajectory[Len(trajectory)].t_global_, Limit)]_vars
  /\ (pc = "traj_loop" /\ DoubleLt(Zero, dt)) ~> Done

====
